---- MODULE Spec2Model ----
(***************************************************************************)
(* Model of Glitter/Sources/main.cpp: a single-threaded OpenGL program     *)
(* that creates a window, uploads one triangle, builds a shader program    *)
(* and runs a render loop until the window is asked to close.              *)
(*                                                                         *)
(* The program counter pc walks the statements of main().  The windowing   *)
(* layer and the graphics driver are the environment: the outcome of       *)
(* glfwCreateWindow, of the two compilations and of the link, the key      *)
(* state and the close requests delivered by glfwPollEvents, and the       *)
(* values read past the end of the index buffer are chosen                 *)
(* nondeterministically.  calls records every GLFW / GL call in order.     *)
(***************************************************************************)
EXTENDS Integers, Sequences, FiniteSets, TLC

VARIABLES
    pc,                  \* position in main()
    mWindow,             \* "none" before creation, then "null" or "valid"
    contextCurrent,      \* a GL context is current on the thread
    shouldClose,         \* the window's should-close flag
    closeRequested,      \* the windowing layer has reported a close request
    escKey,              \* last reported state of GLFW_KEY_ESCAPE
    clock,               \* glfwGetTime(), in whole seconds
    frames,              \* loop iterations started
    colorBuffer,         \* "undefined", "background" or "drawn"
    boundVAO,            \* GL_VERTEX_ARRAY_BINDING
    vaoElementBuffer,    \* element buffer recorded in the VAO
    vaoAttribs,          \* enabled attribute locations of the VAO
    bufferData,          \* buffer name -> uploaded elements
    compileStatus,       \* shader name -> GL_COMPILE_STATUS
    linkStatus,          \* GL_LINK_STATUS of shaderProgram
    currentProgram,      \* GL_CURRENT_PROGRAM (0 = none)
    uniformState,        \* uniform location -> value of shaderProgram
    glError,             \* first recorded GL error
    success,             \* local: int success
    vertexColorLocation, \* local: int vertexColorLocation
    greenValue,          \* local: float greenValue, in thousandths
    lastDraw,            \* what the latest glDrawElements did
    cerr,                \* lines written to std::cerr
    exitStatus,          \* "running", "EXIT_SUCCESS" or "EXIT_FAILURE"
    calls                \* every GLFW / GL call issued so far

vars == <<pc, mWindow, contextCurrent, shouldClose, closeRequested, escKey,
          clock, frames, colorBuffer, boundVAO, vaoElementBuffer, vaoAttribs,
          bufferData, compileStatus, linkStatus, currentProgram, uniformState,
          glError, success, vertexColorLocation, greenValue, lastDraw, cerr,
          exitStatus, calls>>

(* ------------------------------ bounds -------------------------------- *)
MaxFrames == 3
MaxClock == 2

(* ------------------------- program constants -------------------------- *)
VAO == 1
VBO == 1
EBO == 2
vertexShader == 1
fragmentShader == 2
shaderProgram == 3
DrawCount == 6
VertexFloats == 6

\* float vertices[], in tenths
vertices == << 5, -5, 0, 10, 0, 0,
              -5, -5, 0, 0, 10, 0,
               0,  5, 0, 0, 0, 10 >>
\* unsigned int indices[]
indices == <<0, 1, 2>>

\* declarations of the two shader sources
vertexShaderSource ==
    { [q |-> "in", name |-> "aPos"], [q |-> "in", name |-> "aColor"],
      [q |-> "out", name |-> "ourColor"] }
fragmentShaderSource ==
    { [q |-> "out", name |-> "FragColor"], [q |-> "in", name |-> "ourColor"] }

UniformName == "ourColor"

\* values an index read past the end of the element buffer can yield
GarbageIndex == {0, 7}

(* ------------------------------ helpers ------------------------------- *)
Log(cs) == calls' = calls \o cs

SetError(e) == IF glError = "GL_NO_ERROR" THEN e ELSE glError

\* sin(timeValue) in thousandths, timeValue in whole seconds
SinMilli(t) == CASE t = 0 -> 0
                 [] t = 1 -> 842
                 [] t = 2 -> 910
                 [] OTHER -> 142

\* (sin(timeValue) / 2.0f) + 0.5f
Green(t) == (SinMilli(t) \div 2) + 500

\* names of the uniforms a successfully linked program exposes
ActiveUniforms ==
    { d.name : d \in { e \in vertexShaderSource \cup fragmentShaderSource :
                         e.q = "uniform" } }

\* glGetUniformLocation(program, name): -1 unless name is an active uniform
\* of a successfully linked program
UniformLocation(linked, name) ==
    IF linked /\ name \in ActiveUniforms THEN 0 ELSE -1

\* number of whole vertices held by the vertex buffer
VertexCount == Len(bufferData[VBO]) \div VertexFloats

Init ==
    /\ pc = "glfwInit"
    /\ mWindow = "none"
    /\ contextCurrent = FALSE
    /\ shouldClose = FALSE
    /\ closeRequested = FALSE
    /\ escKey = "GLFW_RELEASE"
    /\ clock = 0
    /\ frames = 0
    /\ colorBuffer = "undefined"
    /\ boundVAO = 0
    /\ vaoElementBuffer = 0
    /\ vaoAttribs = {}
    /\ bufferData = [b \in {VBO, EBO} |-> <<>>]
    /\ compileStatus = [s \in {vertexShader, fragmentShader} |-> FALSE]
    /\ linkStatus = FALSE
    /\ currentProgram = 0
    /\ uniformState = [l \in {} |-> <<>>]
    /\ glError = "GL_NO_ERROR"
    /\ success = FALSE
    /\ vertexColorLocation = -1
    /\ greenValue = 0
    /\ lastDraw = [issued |-> FALSE, vao |-> 0, program |-> 0, count |-> 0,
                   elements |-> 0, indicesRead |-> <<>>]
    /\ cerr = <<>>
    /\ exitStatus = "running"
    /\ calls = <<>>


(* ------------------------ window / context bootstrap ------------------ *)
\* main.cpp 31-36
glfwInit ==
    /\ pc = "glfwInit"
    /\ pc' = "glfwCreateWindow"
    /\ Log(<<"glfwInit", "glfwWindowHint">>)
    /\ UNCHANGED <<mWindow, contextCurrent, shouldClose, closeRequested, escKey,
                   clock, frames, colorBuffer, boundVAO, vaoElementBuffer,
                   vaoAttribs, bufferData, compileStatus, linkStatus,
                   currentProgram, uniformState, glError, success,
                   vertexColorLocation, greenValue, lastDraw, cerr, exitStatus>>

\* main.cpp 39: the windowing layer returns a window or nullptr
glfwCreateWindow ==
    /\ pc = "glfwCreateWindow"
    /\ \E w \in {"null", "valid"} : mWindow' = w
    /\ pc' = "checkContext"
    /\ Log(<<"glfwCreateWindow">>)
    /\ UNCHANGED <<contextCurrent, shouldClose, closeRequested, escKey,
                   clock, frames, colorBuffer, boundVAO, vaoElementBuffer,
                   vaoAttribs, bufferData, compileStatus, linkStatus,
                   currentProgram, uniformState, glError, success,
                   vertexColorLocation, greenValue, lastDraw, cerr, exitStatus>>

\* variant of CheckValidContext: the message is written but the return is
\* missing, so control falls through
CheckValidContext_FallsThrough ==
    /\ pc = "checkContext"
    /\ IF mWindow = "null"
         THEN cerr' = Append(cerr, "Failed to Create OpenGL Context")
         ELSE UNCHANGED cerr
    /\ pc' = "glfwMakeContextCurrent"
    /\ UNCHANGED <<mWindow, contextCurrent, shouldClose, closeRequested, escKey,
                   clock, frames, colorBuffer, boundVAO, vaoElementBuffer,
                   vaoAttribs, bufferData, compileStatus, linkStatus,
                   currentProgram, uniformState, glError, success,
                   vertexColorLocation, greenValue, lastDraw, exitStatus, calls>>

\* main.cpp 42-45: nullptr -> message on std::cerr and return EXIT_FAILURE
CheckValidContext ==
    /\ pc = "checkContext"
    /\ IF mWindow = "null"
         THEN /\ cerr' = Append(cerr, "Failed to Create OpenGL Context")
              /\ exitStatus' = "EXIT_FAILURE"
              /\ pc' = "exited"
         ELSE /\ pc' = "glfwMakeContextCurrent"
              /\ UNCHANGED <<cerr, exitStatus>>
    /\ UNCHANGED <<mWindow, contextCurrent, shouldClose, closeRequested, escKey,
                   clock, frames, colorBuffer, boundVAO, vaoElementBuffer,
                   vaoAttribs, bufferData, compileStatus, linkStatus,
                   currentProgram, uniformState, glError, success,
                   vertexColorLocation, greenValue, lastDraw, calls>>

\* main.cpp 48
glfwMakeContextCurrent ==
    /\ pc = "glfwMakeContextCurrent"
    /\ contextCurrent' = TRUE
    /\ pc' = "gladLoadGL"
    /\ Log(<<"glfwMakeContextCurrent">>)
    /\ UNCHANGED <<mWindow, shouldClose, closeRequested, escKey,
                   clock, frames, colorBuffer, boundVAO, vaoElementBuffer,
                   vaoAttribs, bufferData, compileStatus, linkStatus,
                   currentProgram, uniformState, glError, success,
                   vertexColorLocation, greenValue, lastDraw, cerr, exitStatus>>

\* main.cpp 51-52: load the function table, print the GL version
gladLoadGL ==
    /\ pc = "gladLoadGL"
    /\ cerr' = Append(cerr, "OpenGL version")
    /\ pc' = "backgroundFill"
    /\ Log(<<"gladLoadGL", "glGetString">>)
    /\ UNCHANGED <<mWindow, contextCurrent, shouldClose, closeRequested, escKey,
                   clock, frames, colorBuffer, boundVAO, vaoElementBuffer,
                   vaoAttribs, bufferData, compileStatus, linkStatus,
                   currentProgram, uniformState, glError, success,
                   vertexColorLocation, greenValue, lastDraw, exitStatus>>

\* main.cpp 55-56: the only glClear of the program
BackgroundFill ==
    /\ pc = "backgroundFill"
    /\ colorBuffer' = "background"
    /\ pc' = "genObjects"
    /\ Log(<<"glClearColor", "glClear">>)
    /\ UNCHANGED <<mWindow, contextCurrent, shouldClose, closeRequested, escKey,
                   clock, frames, boundVAO, vaoElementBuffer,
                   vaoAttribs, bufferData, compileStatus, linkStatus,
                   currentProgram, uniformState, glError, success,
                   vertexColorLocation, greenValue, lastDraw, cerr, exitStatus>>

(* ----------------------- vertex / index buffer setup ------------------ *)
\* main.cpp 71-81
GenObjects ==
    /\ pc = "genObjects"
    /\ pc' = "vertexBufferSetup"
    /\ Log(<<"glGenVertexArrays", "glGenBuffers", "glGenBuffers">>)
    /\ UNCHANGED <<mWindow, contextCurrent, shouldClose, closeRequested, escKey,
                   clock, frames, colorBuffer, boundVAO, vaoElementBuffer,
                   vaoAttribs, bufferData, compileStatus, linkStatus,
                   currentProgram, uniformState, glError, success,
                   vertexColorLocation, greenValue, lastDraw, cerr, exitStatus>>

\* main.cpp 84-88
VertexBufferSetup ==
    /\ pc = "vertexBufferSetup"
    /\ boundVAO' = VAO
    /\ bufferData' = [bufferData EXCEPT ![VBO] = vertices]
    /\ pc' = "indexBufferSetup"
    /\ Log(<<"glBindVertexArray", "glBindBuffer", "glBufferData">>)
    /\ UNCHANGED <<mWindow, contextCurrent, shouldClose, closeRequested, escKey,
                   clock, frames, colorBuffer, vaoElementBuffer,
                   vaoAttribs, compileStatus, linkStatus,
                   currentProgram, uniformState, glError, success,
                   vertexColorLocation, greenValue, lastDraw, cerr, exitStatus>>

\* main.cpp 91-92: the element-buffer binding is recorded in the bound VAO
IndexBufferSetup ==
    /\ pc = "indexBufferSetup"
    /\ vaoElementBuffer' = IF boundVAO = VAO THEN EBO ELSE vaoElementBuffer
    /\ bufferData' = [bufferData EXCEPT ![EBO] = indices]
    /\ pc' = "attributeSetup"
    /\ Log(<<"glBindBuffer", "glBufferData">>)
    /\ UNCHANGED <<mWindow, contextCurrent, shouldClose, closeRequested, escKey,
                   clock, frames, colorBuffer, boundVAO,
                   vaoAttribs, compileStatus, linkStatus,
                   currentProgram, uniformState, glError, success,
                   vertexColorLocation, greenValue, lastDraw, cerr, exitStatus>>

\* main.cpp 95-109: position at location 0, color at location 1, unbind
AttributeSetup ==
    /\ pc = "attributeSetup"
    /\ vaoAttribs' = IF boundVAO = VAO THEN vaoAttribs \cup {0, 1} ELSE vaoAttribs
    /\ boundVAO' = 0
    /\ pc' = "compileVertex"
    /\ Log(<<"glVertexAttribPointer", "glEnableVertexAttribArray",
             "glVertexAttribPointer", "glEnableVertexAttribArray",
             "glBindVertexArray">>)
    /\ UNCHANGED <<mWindow, contextCurrent, shouldClose, closeRequested, escKey,
                   clock, frames, colorBuffer, vaoElementBuffer,
                   bufferData, compileStatus, linkStatus,
                   currentProgram, uniformState, glError, success,
                   vertexColorLocation, greenValue, lastDraw, cerr, exitStatus>>


(* ------------------------- shader program build ----------------------- *)
\* main.cpp 127-134: the driver decides the compile status
CompileVertexShader ==
    /\ pc = "compileVertex"
    /\ \E ok \in BOOLEAN :
         /\ compileStatus' = [compileStatus EXCEPT ![vertexShader] = ok]
         /\ success' = ok
    /\ pc' = "reportVertex"
    /\ Log(<<"glCreateShader", "glShaderSource",
             "glCompileShader(vertexShader)", "glGetShaderiv">>)
    /\ UNCHANGED <<mWindow, contextCurrent, shouldClose, closeRequested, escKey,
                   clock, frames, colorBuffer, boundVAO, vaoElementBuffer,
                   vaoAttribs, bufferData, linkStatus,
                   currentProgram, uniformState, glError,
                   vertexColorLocation, greenValue, lastDraw, cerr, exitStatus>>

\* main.cpp 136-140
ReportVertexShader ==
    /\ pc = "reportVertex"
    /\ IF ~success
         THEN /\ cerr' = Append(cerr, "Error compiling vertex shader")
              /\ Log(<<"glGetShaderInfoLog">>)
         ELSE UNCHANGED <<cerr, calls>>
    /\ pc' = "compileFragment"
    /\ UNCHANGED <<mWindow, contextCurrent, shouldClose, closeRequested, escKey,
                   clock, frames, colorBuffer, boundVAO, vaoElementBuffer,
                   vaoAttribs, bufferData, compileStatus, linkStatus,
                   currentProgram, uniformState, glError, success,
                   vertexColorLocation, greenValue, lastDraw, exitStatus>>

\* main.cpp 154-159
CompileFragmentShader ==
    /\ pc = "compileFragment"
    /\ \E ok \in BOOLEAN :
         /\ compileStatus' = [compileStatus EXCEPT ![fragmentShader] = ok]
         /\ success' = ok
    /\ pc' = "reportFragment"
    /\ Log(<<"glCreateShader", "glShaderSource",
             "glCompileShader(fragmentShader)", "glGetShaderiv">>)
    /\ UNCHANGED <<mWindow, contextCurrent, shouldClose, closeRequested, escKey,
                   clock, frames, colorBuffer, boundVAO, vaoElementBuffer,
                   vaoAttribs, bufferData, linkStatus,
                   currentProgram, uniformState, glError,
                   vertexColorLocation, greenValue, lastDraw, cerr, exitStatus>>

\* main.cpp 161-165
ReportFragmentShader ==
    /\ pc = "reportFragment"
    /\ IF ~success
         THEN /\ cerr' = Append(cerr, "Error compiling fragment shader")
              /\ Log(<<"glGetShaderInfoLog">>)
         ELSE UNCHANGED <<cerr, calls>>
    /\ pc' = "linkProgram"
    /\ UNCHANGED <<mWindow, contextCurrent, shouldClose, closeRequested, escKey,
                   clock, frames, colorBuffer, boundVAO, vaoElementBuffer,
                   vaoAttribs, bufferData, compileStatus, linkStatus,
                   currentProgram, uniformState, glError, success,
                   vertexColorLocation, greenValue, lastDraw, exitStatus>>

\* main.cpp 168-174: a link can succeed only if both attached shaders compiled
LinkShaderProgram ==
    /\ pc = "linkProgram"
    /\ \E ok \in (IF compileStatus[vertexShader] /\ compileStatus[fragmentShader]
                    THEN BOOLEAN ELSE {FALSE}) :
         /\ linkStatus' = ok
         /\ success' = ok
    /\ pc' = "reportLink"
    /\ Log(<<"glCreateProgram", "glAttachShader", "glAttachShader",
             "glLinkProgram", "glGetProgramiv">>)
    /\ UNCHANGED <<mWindow, contextCurrent, shouldClose, closeRequested, escKey,
                   clock, frames, colorBuffer, boundVAO, vaoElementBuffer,
                   vaoAttribs, bufferData, compileStatus,
                   currentProgram, uniformState, glError,
                   vertexColorLocation, greenValue, lastDraw, cerr, exitStatus>>

\* variant of ReportLink: a link failure ends the program
ReportLink_Fatal ==
    /\ pc = "reportLink"
    /\ IF ~success
         THEN /\ cerr' = Append(cerr, "Error linking shader program")
              /\ Log(<<"glGetProgramInfoLog">>)
              /\ exitStatus' = "EXIT_FAILURE"
              /\ pc' = "exited"
         ELSE /\ pc' = "loopCondition"
              /\ UNCHANGED <<cerr, calls, exitStatus>>
    /\ UNCHANGED <<mWindow, contextCurrent, shouldClose, closeRequested, escKey,
                   clock, frames, colorBuffer, boundVAO, vaoElementBuffer,
                   vaoAttribs, bufferData, compileStatus, linkStatus,
                   currentProgram, uniformState, glError, success,
                   vertexColorLocation, greenValue, lastDraw>>

\* main.cpp 175-179
ReportLink ==
    /\ pc = "reportLink"
    /\ IF ~success
         THEN /\ cerr' = Append(cerr, "Error linking shader program")
              /\ Log(<<"glGetProgramInfoLog">>)
         ELSE UNCHANGED <<cerr, calls>>
    /\ pc' = "loopCondition"
    /\ UNCHANGED <<mWindow, contextCurrent, shouldClose, closeRequested, escKey,
                   clock, frames, colorBuffer, boundVAO, vaoElementBuffer,
                   vaoAttribs, bufferData, compileStatus, linkStatus,
                   currentProgram, uniformState, glError, success,
                   vertexColorLocation, greenValue, lastDraw, exitStatus>>

(* ------------------------------ render loop --------------------------- *)
\* variant of LoopCondition: the comparison is inverted
LoopCondition_Inverted ==
    /\ pc = "loopCondition"
    /\ IF shouldClose = TRUE
         THEN /\ frames < MaxFrames
              /\ frames' = frames + 1
              /\ pc' = "processEscape"
              /\ Log(<<"glfwWindowShouldClose -> true">>)
         ELSE /\ pc' = "glfwTerminate"
              /\ Log(<<"glfwWindowShouldClose -> false">>)
              /\ UNCHANGED frames
    /\ UNCHANGED <<mWindow, contextCurrent, shouldClose, closeRequested, escKey,
                   clock, colorBuffer, boundVAO, vaoElementBuffer,
                   vaoAttribs, bufferData, compileStatus, linkStatus,
                   currentProgram, uniformState, glError, success,
                   vertexColorLocation, greenValue, lastDraw, cerr, exitStatus>>

\* main.cpp 182: while (glfwWindowShouldClose(mWindow) == false)
LoopCondition ==
    /\ pc = "loopCondition"
    /\ IF shouldClose = FALSE
         THEN /\ frames < MaxFrames
              /\ frames' = frames + 1
              /\ pc' = "processEscape"
              /\ Log(<<"glfwWindowShouldClose -> false">>)
         ELSE /\ pc' = "glfwTerminate"
              /\ Log(<<"glfwWindowShouldClose -> true">>)
              /\ UNCHANGED frames
    /\ UNCHANGED <<mWindow, contextCurrent, shouldClose, closeRequested, escKey,
                   clock, colorBuffer, boundVAO, vaoElementBuffer,
                   vaoAttribs, bufferData, compileStatus, linkStatus,
                   currentProgram, uniformState, glError, success,
                   vertexColorLocation, greenValue, lastDraw, cerr, exitStatus>>

\* variant of ProcessEscape: the key press leaves the loop at once
ProcessEscape_Breaks ==
    /\ pc = "processEscape"
    /\ IF escKey = "GLFW_PRESS"
         THEN /\ shouldClose' = TRUE
              /\ Log(<<"glfwGetKey -> GLFW_PRESS", "glfwSetWindowShouldClose">>)
              /\ pc' = "glfwTerminate"
         ELSE /\ Log(<<"glfwGetKey -> GLFW_RELEASE">>)
              /\ pc' = "lookupUniform"
              /\ UNCHANGED shouldClose
    /\ UNCHANGED <<mWindow, contextCurrent, closeRequested, escKey,
                   clock, frames, colorBuffer, boundVAO, vaoElementBuffer,
                   vaoAttribs, bufferData, compileStatus, linkStatus,
                   currentProgram, uniformState, glError, success,
                   vertexColorLocation, greenValue, lastDraw, cerr, exitStatus>>

\* main.cpp 184-187
ProcessEscape ==
    /\ pc = "processEscape"
    /\ IF escKey = "GLFW_PRESS"
         THEN /\ shouldClose' = TRUE
              /\ Log(<<"glfwGetKey -> GLFW_PRESS", "glfwSetWindowShouldClose">>)
         ELSE /\ Log(<<"glfwGetKey -> GLFW_RELEASE">>)
              /\ UNCHANGED shouldClose
    /\ pc' = "lookupUniform"
    /\ UNCHANGED <<mWindow, contextCurrent, closeRequested, escKey,
                   clock, frames, colorBuffer, boundVAO, vaoElementBuffer,
                   vaoAttribs, bufferData, compileStatus, linkStatus,
                   currentProgram, uniformState, glError, success,
                   vertexColorLocation, greenValue, lastDraw, cerr, exitStatus>>

\* main.cpp 190-192: timeValue, greenValue, vertexColorLocation
LookupUniform ==
    /\ pc = "lookupUniform"
    /\ greenValue' = Green(clock)
    /\ vertexColorLocation' = UniformLocation(linkStatus, UniformName)
    /\ glError' = IF linkStatus THEN glError ELSE SetError("GL_INVALID_OPERATION")
    /\ pc' = "glUseProgram"
    /\ Log(<<"glfwGetTime", "glGetUniformLocation">>)
    /\ UNCHANGED <<mWindow, contextCurrent, shouldClose, closeRequested, escKey,
                   clock, frames, colorBuffer, boundVAO, vaoElementBuffer,
                   vaoAttribs, bufferData, compileStatus, linkStatus,
                   currentProgram, uniformState, success,
                   lastDraw, cerr, exitStatus>>

\* the program current after glUseProgram(program): a program that did not
\* link cannot be installed and the current program stays as it was
UseProgram(program) == IF linkStatus THEN program ELSE currentProgram

\* main.cpp 196
glUseProgram ==
    /\ pc = "glUseProgram"
    /\ currentProgram' = UseProgram(shaderProgram)
    /\ glError' = IF linkStatus THEN glError ELSE SetError("GL_INVALID_OPERATION")
    /\ pc' = "glUniform4f"
    /\ Log(<<"glUseProgram">>)
    /\ UNCHANGED <<mWindow, contextCurrent, shouldClose, closeRequested, escKey,
                   clock, frames, colorBuffer, boundVAO, vaoElementBuffer,
                   vaoAttribs, bufferData, compileStatus, linkStatus,
                   uniformState, success,
                   vertexColorLocation, greenValue, lastDraw, cerr, exitStatus>>

\* main.cpp 197: location -1 is silently ignored; otherwise the value goes
\* to the current program, and it is an error if there is none
glUniform4f ==
    /\ pc = "glUniform4f"
    /\ IF vertexColorLocation = -1
         THEN UNCHANGED <<uniformState, glError>>
         ELSE IF currentProgram = 0
                THEN /\ glError' = SetError("GL_INVALID_OPERATION")
                     /\ UNCHANGED uniformState
                ELSE /\ uniformState' =
                          (vertexColorLocation :> <<0, greenValue, 0, 1000>>)
                              @@ uniformState
                     /\ UNCHANGED glError
    /\ pc' = "renderObjects"
    /\ Log(<<"glUniform4f">>)
    /\ UNCHANGED <<mWindow, contextCurrent, shouldClose, closeRequested, escKey,
                   clock, frames, colorBuffer, boundVAO, vaoElementBuffer,
                   vaoAttribs, bufferData, compileStatus, linkStatus,
                   currentProgram, success,
                   vertexColorLocation, greenValue, lastDraw, cerr, exitStatus>>

\* the indices glDrawElements reads: the first elements of the element
\* buffer, and whatever lies behind the buffer once count exceeds its size
IndicesRead(count, ebo, beyond) ==
    [i \in 1..count |-> IF i <= Len(ebo) THEN ebo[i] ELSE beyond[i]]

\* main.cpp 13-26, called at 199
renderObjects(vao, program) ==
    /\ pc = "renderObjects"
    /\ currentProgram' = UseProgram(program)
    /\ glError' = IF linkStatus THEN glError ELSE SetError("GL_INVALID_OPERATION")
    /\ LET ebo == bufferData[vaoElementBuffer] IN
         \E beyond \in [(Len(ebo) + 1)..DrawCount -> GarbageIndex] :
           lastDraw' = [issued |-> TRUE, vao |-> vao,
                        program |-> currentProgram',
                        count |-> DrawCount, elements |-> Len(ebo),
                        indicesRead |-> IndicesRead(DrawCount, ebo, beyond)]
    /\ colorBuffer' = "drawn"
    /\ boundVAO' = 0
    /\ pc' = "glfwSwapBuffers"
    /\ Log(<<"glBindVertexArray", "glUseProgram", "glDrawElements",
             "glBindVertexArray">>)
    /\ UNCHANGED <<mWindow, contextCurrent, shouldClose, closeRequested, escKey,
                   clock, frames, vaoElementBuffer,
                   vaoAttribs, bufferData, compileStatus, linkStatus,
                   uniformState, success,
                   vertexColorLocation, greenValue, cerr, exitStatus>>

\* main.cpp 202: the swap waits for the display, so time may pass; the new
\* back buffer's contents are undefined
glfwSwapBuffers ==
    /\ pc = "glfwSwapBuffers"
    /\ \E d \in {0, 1} : clock' = IF clock + d > MaxClock THEN clock ELSE clock + d
    /\ colorBuffer' = "undefined"
    /\ pc' = "glfwPollEvents"
    /\ Log(<<"glfwSwapBuffers">>)
    /\ UNCHANGED <<mWindow, contextCurrent, shouldClose, closeRequested, escKey,
                   frames, boundVAO, vaoElementBuffer,
                   vaoAttribs, bufferData, compileStatus, linkStatus,
                   currentProgram, uniformState, glError, success,
                   vertexColorLocation, greenValue, lastDraw, cerr, exitStatus>>

\* main.cpp 203: the windowing layer delivers key events and close requests
glfwPollEvents ==
    /\ pc = "glfwPollEvents"
    /\ \E k \in {"GLFW_RELEASE", "GLFW_PRESS"} : escKey' = k
    /\ \E req \in BOOLEAN :
         /\ closeRequested' = (closeRequested \/ req)
         /\ shouldClose' = (shouldClose \/ req)
    /\ pc' = "loopCondition"
    /\ Log(<<"glfwPollEvents">>)
    /\ UNCHANGED <<mWindow, contextCurrent,
                   clock, frames, colorBuffer, boundVAO, vaoElementBuffer,
                   vaoAttribs, bufferData, compileStatus, linkStatus,
                   currentProgram, uniformState, glError, success,
                   vertexColorLocation, greenValue, lastDraw, cerr, exitStatus>>

\* variant of glfwTerminate: the teardown is left out
glfwTerminate_Omitted ==
    /\ pc = "glfwTerminate"
    /\ pc' = "return"
    /\ UNCHANGED <<mWindow, contextCurrent, shouldClose, closeRequested, escKey,
                   clock, frames, colorBuffer, boundVAO, vaoElementBuffer,
                   vaoAttribs, bufferData, compileStatus, linkStatus,
                   currentProgram, uniformState, glError, success,
                   vertexColorLocation, greenValue, lastDraw, cerr, exitStatus, calls>>

\* main.cpp 205
glfwTerminate ==
    /\ pc = "glfwTerminate"
    /\ contextCurrent' = FALSE
    /\ pc' = "return"
    /\ Log(<<"glfwTerminate">>)
    /\ UNCHANGED <<mWindow, shouldClose, closeRequested, escKey,
                   clock, frames, colorBuffer, boundVAO, vaoElementBuffer,
                   vaoAttribs, bufferData, compileStatus, linkStatus,
                   currentProgram, uniformState, glError, success,
                   vertexColorLocation, greenValue, lastDraw, cerr, exitStatus>>

\* main.cpp 206
ReturnSuccess ==
    /\ pc = "return"
    /\ exitStatus' = "EXIT_SUCCESS"
    /\ pc' = "exited"
    /\ UNCHANGED <<mWindow, contextCurrent, shouldClose, closeRequested, escKey,
                   clock, frames, colorBuffer, boundVAO, vaoElementBuffer,
                   vaoAttribs, bufferData, compileStatus, linkStatus,
                   currentProgram, uniformState, glError, success,
                   vertexColorLocation, greenValue, lastDraw, cerr, calls>>

Next ==
    \/ glfwInit
    \/ glfwCreateWindow
    \/ CheckValidContext
    \/ glfwMakeContextCurrent
    \/ gladLoadGL
    \/ BackgroundFill
    \/ GenObjects
    \/ VertexBufferSetup
    \/ IndexBufferSetup
    \/ AttributeSetup
    \/ CompileVertexShader
    \/ ReportVertexShader
    \/ CompileFragmentShader
    \/ ReportFragmentShader
    \/ LinkShaderProgram
    \/ ReportLink
    \/ LoopCondition
    \/ ProcessEscape
    \/ LookupUniform
    \/ glUseProgram
    \/ glUniform4f
    \/ renderObjects(VAO, shaderProgram)
    \/ glfwSwapBuffers
    \/ glfwPollEvents
    \/ glfwTerminate
    \/ ReturnSuccess

Spec == Init /\ [][Next]_vars


(* ======================= properties of the program ==================== *)
Range(f) == {f[i] : i \in DOMAIN f}
Count(x) == Cardinality({i \in DOMAIN calls : calls[i] = x})
Positions(x) == {i \in DOMAIN calls : calls[i] = x}
IsPrefix(a, b) == Len(a) <= Len(b) /\ \A i \in 1..Len(a) : a[i] = b[i]
CallsAfter(i) == SubSeq(calls, i + 1, Len(calls))

\* the statements of main() in program order
PcOrder == <<"glfwInit", "glfwCreateWindow", "checkContext",
             "glfwMakeContextCurrent", "gladLoadGL", "backgroundFill",
             "genObjects", "vertexBufferSetup", "indexBufferSetup",
             "attributeSetup", "compileVertex", "reportVertex",
             "compileFragment", "reportFragment", "linkProgram", "reportLink",
             "loopCondition", "processEscape", "lookupUniform", "glUseProgram",
             "glUniform4f", "renderObjects", "glfwSwapBuffers",
             "glfwPollEvents", "glfwTerminate", "return", "exited">>
Rank(p) == CHOOSE i \in DOMAIN PcOrder : PcOrder[i] = p
\* control has come to statement p or beyond it, without the early return
Reached(p) == mWindow = "valid" /\ Rank(pc) >= Rank(p)

LoopPcs == {"loopCondition", "processEscape", "lookupUniform", "glUseProgram",
            "glUniform4f", "renderObjects", "glfwSwapBuffers", "glfwPollEvents"}
ClosingPcs == {"glfwTerminate", "return", "exited"}

\* calls that need a current context, and the calls of the render loop
GraphicsCalls == {"glfwMakeContextCurrent", "gladLoadGL", "glGetString",
                  "glClearColor", "glClear", "glGenVertexArrays",
                  "glGenBuffers", "glBindVertexArray", "glBindBuffer",
                  "glBufferData", "glVertexAttribPointer",
                  "glEnableVertexAttribArray", "glCreateShader",
                  "glShaderSource", "glCompileShader(vertexShader)",
                  "glCompileShader(fragmentShader)", "glGetShaderiv",
                  "glGetShaderInfoLog", "glCreateProgram", "glAttachShader",
                  "glLinkProgram", "glGetProgramiv", "glGetProgramInfoLog",
                  "glGetUniformLocation", "glUseProgram", "glUniform4f",
                  "glDrawElements"}
LoopCalls == {"glfwWindowShouldClose -> false", "glfwWindowShouldClose -> true",
              "glfwGetKey -> GLFW_PRESS", "glfwGetKey -> GLFW_RELEASE",
              "glfwSetWindowShouldClose", "glfwGetTime", "glfwSwapBuffers",
              "glfwPollEvents"}

EscDetected == "glfwSetWindowShouldClose" \in Range(calls)

\* C1: if window creation returns no valid handle, the program writes a
\* diagnostic to the error stream and exits with failure status; on that
\* path no context is made current, no graphics call is issued and the
\* render loop is never entered.
C1_WindowFailureIsFatal ==
    mWindow = "null" =>
        /\ ~contextCurrent
        /\ Range(calls) \cap (GraphicsCalls \cup LoopCalls) = {}
        /\ frames = 0
        /\ pc \in {"checkContext", "exited"}
        /\ pc = "exited" =>
             /\ exitStatus = "EXIT_FAILURE"
             /\ cerr = <<"Failed to Create OpenGL Context">>

C1_Witness == mWindow = "null" /\ pc = "exited"

\* C2: when window creation succeeded, the process exits with success status
\* only after the loop condition has observed the should-close flag set; the
\* windowing layer is torn down exactly once, right after that observation
\* and before the exit, and no call follows the teardown.
C2_TeardownOnceAfterLoop ==
    /\ \A i \in Positions("glfwTerminate") :
         /\ i = Len(calls)
         /\ i > 1 /\ calls[i - 1] = "glfwWindowShouldClose -> true"
    /\ Count("glfwTerminate") <= 1
    /\ (mWindow = "valid" /\ pc = "exited") =>
         /\ exitStatus = "EXIT_SUCCESS"
         /\ shouldClose
         /\ Count("glfwTerminate") = 1
    /\ exitStatus = "EXIT_SUCCESS" => (mWindow = "valid" /\ pc = "exited")

C2_Witness == exitStatus = "EXIT_SUCCESS" /\ frames >= 2

\* C3: shader compile and link failures are not fatal.  For each of the
\* three stages a diagnostic is on the error stream if and only if that
\* stage's status is false; whatever the three flags are, each stage runs
\* exactly once, control goes on to the next stage and into the render
\* loop, and the program never exits with failure status because of them.
C3_Diagnostics ==
    /\ ("Error compiling vertex shader" \in Range(cerr))
          <=> (Reached("compileFragment") /\ ~compileStatus[vertexShader])
    /\ ("Error compiling fragment shader" \in Range(cerr))
          <=> (Reached("linkProgram") /\ ~compileStatus[fragmentShader])
    /\ ("Error linking shader program" \in Range(cerr))
          <=> (Reached("loopCondition") /\ ~linkStatus)
    /\ Reached("loopCondition") =>
         /\ Count("glCompileShader(vertexShader)") = 1
         /\ Count("glCompileShader(fragmentShader)") = 1
         /\ Count("glLinkProgram") = 1
    /\ Cardinality(DOMAIN cerr) = Cardinality(Range(cerr))
    /\ mWindow = "valid" => exitStatus # "EXIT_FAILURE"

C3_Continues ==
    /\ pc = "reportVertex" => pc' = "compileFragment"
    /\ pc = "reportFragment" => pc' = "linkProgram"
    /\ pc = "reportLink" => pc' = "loopCondition"

C3_ShaderFailuresNonFatal == []C3_Diagnostics /\ [][C3_Continues]_vars

C3_Witness ==
    /\ pc = "renderObjects"
    /\ compileStatus[vertexShader] /\ ~compileStatus[fragmentShader]
    /\ ~linkStatus
    /\ Len(cerr) = 3

\* C4: whenever a draw call has been issued with the shader program, that
\* program's link status is true.
C4_DrawOnlyLinkedProgram == lastDraw.issued => linkStatus

\* C5: the iteration in which the escape key is detected still performs all
\* its remaining steps in order (uniform update, draw, swap, poll); the loop
\* is left only at the following loop-condition check and no further
\* iteration is started.
AfterEscape == <<"glfwGetTime", "glGetUniformLocation", "glUseProgram",
                 "glUniform4f", "glBindVertexArray", "glUseProgram",
                 "glDrawElements", "glBindVertexArray", "glfwSwapBuffers",
                 "glfwPollEvents", "glfwWindowShouldClose -> true",
                 "glfwTerminate">>

C5_EscapeFinishesFrame ==
    \A i \in Positions("glfwSetWindowShouldClose") :
        /\ calls[i - 1] = "glfwGetKey -> GLFW_PRESS"
        /\ IsPrefix(CallsAfter(i), AfterEscape)
        /\ shouldClose
        /\ pc \in LoopPcs => Len(CallsAfter(i)) < Len(AfterEscape) - 1

C5_Witness ==
    /\ ~closeRequested
    /\ \E i \in Positions("glfwSetWindowShouldClose") : CallsAfter(i) = AfterEscape

\* C6: the loop is left for the terminal state only from its condition check
\* and only when the escape key was detected or the windowing layer reported
\* a close request; while neither has happened the condition check starts
\* another iteration; once set, the should-close flag is never set back and
\* the program never returns to the loop.
C6_Step ==
    /\ (pc \in LoopPcs /\ pc' \in ClosingPcs) =>
          (pc = "loopCondition" /\ shouldClose /\ (EscDetected \/ closeRequested))
    /\ (pc = "loopCondition" /\ ~EscDetected /\ ~closeRequested) =>
          pc' = "processEscape"
    /\ shouldClose => shouldClose'
    /\ pc \in ClosingPcs => pc' \in ClosingPcs

C6_LeavesRunningOnlyOnClose == [][C6_Step]_vars

C6_Witness ==
    /\ pc = "glfwTerminate" /\ closeRequested /\ ~EscDetected /\ frames >= 2

\* C7: in every iteration the color buffer is cleared before that
\* iteration's draw call: every draw is preceded by a clear with no buffer
\* swap in between.
C7_ClearBeforeEveryDraw ==
    \A i \in Positions("glDrawElements") :
        \E j \in Positions("glClear") :
            /\ j < i
            /\ \A k \in Positions("glfwSwapBuffers") : ~(j < k /\ k < i)

\* C8: every per-frame uniform write is issued while the shader program is
\* the current program, and the same program is current at the draw call.
C8_UniformWriteWithProgramCurrent ==
    /\ pc = "glUniform4f" => currentProgram = shaderProgram
    /\ lastDraw.issued => lastDraw.program = shaderProgram

\* C9: the name looked up each frame is a uniform of the linked program, so
\* the lookup yields a valid location and the per-frame write stores the
\* green value in the program's uniform state.
C9_UniformWriteTakesEffect ==
    (linkStatus /\ pc = "renderObjects") =>
        /\ vertexColorLocation # -1
        /\ vertexColorLocation \in DOMAIN uniformState
        /\ uniformState[vertexColorLocation] = <<0, greenValue, 0, 1000>>

\* C10: the index count of every draw call does not exceed the number of
\* elements of the index buffer bound to the vertex-array object, and every
\* index read refers to an uploaded vertex.
C10_DrawReadsUploadedIndices ==
    lastDraw.issued =>
        /\ lastDraw.count <= lastDraw.elements
        /\ \A i \in DOMAIN lastDraw.indicesRead :
             lastDraw.indicesRead[i] \in 0..(VertexCount - 1)

====
